---- MODULE Spec2Model ----
(***************************************************************************)
(* Model of the debate / negotiation runners of ai-alignment-debate:       *)
(*   src/debate_eval.py     (PRO / CON debate, judged)                      *)
(*   src/debate_nojudge.py  (Agent A / Agent B negotiation, mediated)       *)
(* chat_once (the gateway), force_json (the extractor), run_single_debate  *)
(* and run_single_alignment (the orchestrators), save_run_log and main     *)
(* (the batch driver).                                                     *)
(*                                                                         *)
(* A text is a sequence of tokens [k, v]; a Python / JSON value is a       *)
(* record [t, v, m] (m: the members of a dict, empty otherwise).  JSON     *)
(* arrays are not part of the token alphabet.                              *)
(*                                                                         *)
(* Spec is a batch of runs, LiveSpec a batch under fairness, ExtractSpec   *)
(* one call of force_json on its own, PairSpec the two orchestrators side  *)
(* by side.                                                                *)
(***************************************************************************)
EXTENDS Integers, Sequences, FiniteSets, TLC

\* ------------------------------------------------------------------ bounds
MaxRounds == 2
MaxRuns == 2
MaxRetry == 3
MaxTextLen == 5
MaxItems == 2

\* chat_once's default retry: no caller passes another
DefaultRetry == 3

\* ------------------------------------------------------------------ tokens
Tok(k, v) == [k |-> k, v |-> v]
LBRACE == Tok("punct", "{")
RBRACE == Tok("punct", "}")
COLON == Tok("punct", ":")
COMMA == Tok("punct", ",")
WS == Tok("ws", " ")
S(x) == Tok("str", x)
LitTrue == Tok("lit", "true")
LitFalse == Tok("lit", "false")
LitNull == Tok("lit", "null")
Num(x) == Tok("num", x)
Word(x) == Tok("word", x)

\* ------------------------------------------------------------------ values
NoMembers == [x \in {} |-> x]
PyNone == [t |-> "none", v |-> "", m |-> NoMembers]
PyStr(x) == [t |-> "str", v |-> x, m |-> NoMembers]
PyBool(b) == [t |-> "bool", v |-> IF b THEN "true" ELSE "false", m |-> NoMembers]
PyNum(x) == [t |-> "num", v |-> x, m |-> NoMembers]
PyDict(members) == [t |-> "dict", v |-> "", m |-> members]
EmptyDict == PyDict(NoMembers)

\* isinstance(x, dict) / isinstance(x, bool)
IsDict(x) == x.t = "dict"
IsBool(x) == x.t = "bool"

\* Python truthiness of a value (the operand of `or`, `if obj`).
Truthy(x) ==
  CASE x.t = "none" -> FALSE
    [] x.t = "str" -> x.v # ""
    [] x.t = "bool" -> x.v = "true"
    [] x.t = "num" -> x.v # "0"
    [] x.t = "dict" -> DOMAIN x.m # {}
    [] OTHER -> TRUE

\* d.get(key): the member, or None when the key is missing.
DictGet(d, key) == IF key \in DOMAIN d.m THEN d.m[key] ELSE PyNone

\* ------------------------------------------------------------------ json.loads
ParseFail == [ok |-> FALSE, val |-> PyNone, next |-> 0]
ParseOk(val, next) == [ok |-> TRUE, val |-> val, next |-> next]

RECURSIVE SkipWs(_, _)
SkipWs(t, i) ==
  IF i <= Len(t) /\ t[i].k = "ws" THEN SkipWs(t, i + 1) ELSE i

\* PutMember mistaken: a repeated key keeps its first value
PutMember_FirstWins(members, key, val) ==
  [x \in DOMAIN members \cup {key} |->
     IF x \in DOMAIN members THEN members[x] ELSE val]

\* members with key bound to val (a repeated key keeps the last value)
PutMember(members, key, val) ==
  [x \in DOMAIN members \cup {key} |-> IF x = key THEN val ELSE members[x]]

LitValue(tok) ==
  CASE tok.v = "true" -> PyBool(TRUE)
    [] tok.v = "false" -> PyBool(FALSE)
    [] OTHER -> PyNone

RECURSIVE ParseValue(_, _)
RECURSIVE ParseMembers(_, _, _, _)
\* one JSON value starting at token i (no leading whitespace)
ParseValue(t, i) ==
  IF i > Len(t) THEN ParseFail
  ELSE CASE t[i].k = "str" -> ParseOk(PyStr(t[i].v), i + 1)
         [] t[i].k = "lit" -> ParseOk(LitValue(t[i]), i + 1)
         [] t[i].k = "num" -> ParseOk(PyNum(t[i].v), i + 1)
         [] t[i] = LBRACE -> ParseMembers(t, SkipWs(t, i + 1), NoMembers, TRUE)
         [] OTHER -> ParseFail

\* the members of an object after its "{" (first: no member parsed yet)
ParseMembers(t, i, members, first) ==
  IF i > Len(t) THEN ParseFail
  ELSE IF first /\ t[i] = RBRACE THEN ParseOk(PyDict(members), i + 1)
  ELSE IF t[i].k # "str" THEN ParseFail
  ELSE LET j == SkipWs(t, i + 1) IN
    IF j > Len(t) \/ t[j] # COLON THEN ParseFail
    ELSE LET r == ParseValue(t, SkipWs(t, j + 1)) IN
      IF ~r.ok THEN ParseFail
      ELSE LET n == SkipWs(t, r.next)
               m2 == PutMember(members, t[i].v, r.val) IN
        IF n > Len(t) THEN ParseFail
        ELSE IF t[n] = RBRACE THEN ParseOk(PyDict(m2), n + 1)
        ELSE IF t[n] = COMMA THEN ParseMembers(t, SkipWs(t, n + 1), m2, FALSE)
        ELSE ParseFail

\* json.loads(s): the whole text is one value; ok = FALSE models the raise
JsonLoads(t) ==
  LET r == ParseValue(t, SkipWs(t, 1)) IN
    IF r.ok /\ SkipWs(t, r.next) > Len(t) THEN r ELSE ParseFail

\* ------------------------------------------------------------------ force_json
RECURSIVE StripLeft(_)
StripLeft(t) == IF t # <<>> /\ Head(t).k = "ws" THEN StripLeft(Tail(t)) ELSE t
RECURSIVE StripRight(_)
StripRight(t) ==
  IF t # <<>> /\ t[Len(t)].k = "ws" THEN StripRight(SubSeq(t, 1, Len(t) - 1)) ELSE t
\* str.strip()
Strip(t) == StripRight(StripLeft(t))

\* s.find("{") and s.rfind("}"), 1-based, 0 for Python's -1
FindFirst(t, tok) ==
  IF \E i \in 1..Len(t) : t[i] = tok
  THEN CHOOSE i \in 1..Len(t) : t[i] = tok /\ \A j \in 1..(i - 1) : t[j] # tok
  ELSE 0
FindLast(t, tok) ==
  IF \E i \in 1..Len(t) : t[i] = tok
  THEN CHOOSE i \in 1..Len(t) : t[i] = tok /\ \A j \in (i + 1)..Len(t) : t[j] # tok
  ELSE 0

NoObj == [some |-> FALSE, val |-> PyNone]
SomeObj(val) == [some |-> TRUE, val |-> val]

\* ForceJsonFallback mistaken: the snippet ends at the first "}" after the
\* first "{", not at the last one
ForceJsonFallback_FirstClose(s) ==
  LET start == FindFirst(s, LBRACE)
      closes == {b \in 1..Len(s) : b > start /\ s[b] = RBRACE} IN
    IF start # 0 /\ closes # {}
    THEN LET end == CHOOSE b \in closes : \A c \in closes : b <= c
             r == JsonLoads(SubSeq(s, start, end)) IN
           IF r.ok /\ IsDict(r.val) THEN SomeObj(r.val) ELSE NoObj
    ELSE NoObj

\* ForceJsonFallback mistaken: the snippet starts at the last "{", not at the
\* first one
ForceJsonFallback_LastOpen(s) ==
  LET start == FindLast(s, LBRACE)
      end == FindLast(s, RBRACE) IN
    IF start # 0 /\ end # 0 /\ end > start
    THEN LET r == JsonLoads(SubSeq(s, start, end)) IN
           IF r.ok /\ IsDict(r.val) THEN SomeObj(r.val) ELSE NoObj
    ELSE NoObj

\* the fallback of force_json: the snippet from the first "{" to the last "}"
ForceJsonFallback(s) ==
  LET start == FindFirst(s, LBRACE)
      end == FindLast(s, RBRACE) IN
    IF start # 0 /\ end # 0 /\ end > start
    THEN LET r == JsonLoads(SubSeq(s, start, end)) IN
           IF r.ok /\ IsDict(r.val) THEN SomeObj(r.val) ELSE NoObj
    ELSE NoObj

\* the fast path of force_json: the whole text is a JSON object
FastPath(s) ==
  LET fast == JsonLoads(s) IN
    IF fast.ok /\ IsDict(fast.val) THEN SomeObj(fast.val) ELSE NoObj

\* force_json(s): Optional[dict]
force_json(text) ==
  LET s == Strip(text) IN
    IF FastPath(s).some THEN FastPath(s) ELSE ForceJsonFallback(s)

\* ------------------------------------------------------------------ messages
None == [some |-> FALSE, text |-> <<>>]
Some(text) == [some |-> TRUE, text |-> text]

Msg(role, content) == [role |-> role, content |-> content]

\* the system message that opens the transcript
SystemMsg(v) ==
  Msg("system", <<Word(IF v = "debate"
                       THEN "You are moderating a formal two-sided debate."
                       ELSE "You are facilitating a two-party debate and planning session.")>>)

NoneYet == <<Word("(none yet)")>>

\* (last or '(none yet)'): None and the empty string are both falsy
OrNoneYet(last) == IF last.some /\ last.text # <<>> THEN last.text ELSE NoneYet

\* the directive of participant A (PRO / Agent A), quoting B's last turn
InstructionA(v, last_b) ==
  Msg("user", <<Word(IF v = "debate" THEN "You are the PRO side." ELSE "You are Agent A.")>>
              \o OrNoneYet(last_b))

\* the directive of participant B (CON / Agent B), quoting A's last turn
InstructionB(v, last_a) ==
  Msg("user", <<Word(IF v = "debate" THEN "You are the CON side." ELSE "You are Agent B.")>>
              \o OrNoneYet(last_a))

\* judge_prompt / mediator_prompt
ArbPrompt(v) ==
  Msg("user", <<Word(IF v = "debate" THEN "You are the judge." ELSE "You are the mediator.")>>)

Assistant(text) == Msg("assistant", text)

\* ------------------------------------------------------------------ force_json, one call
\* (s or ""): None and the empty string both give the empty text
OrEmpty(arg) == IF arg.some THEN arg.text ELSE <<>>

NotCalled == [called |-> FALSE, raised |-> FALSE, obj |-> NoObj, path |-> "none"]

\* ForceJsonCall mistaken: s.strip() without the `or ""`, so that None raises
ForceJsonCall_Unguarded(arg) ==
  LET s == Strip(OrEmpty(arg)) IN
    [called |-> TRUE,
     raised |-> ~arg.some,
     obj |-> IF arg.some THEN force_json(arg.text) ELSE NoObj,
     path |-> IF ~arg.some THEN "none"
              ELSE IF FastPath(s).some THEN "fast"
              ELSE IF ForceJsonFallback(s).some THEN "fallback" ELSE "none"]

\* one call force_json(arg), arg a text or None: whether an exception left the
\* call, what it returned, and the path that returned it.  Both json.loads sit
\* in a try whose except catches Exception, and strip, find, rfind and the
\* slice of a str raise nothing, so no exception leaves the call.
ForceJsonCall(arg) ==
  LET s == Strip(OrEmpty(arg)) IN
    [called |-> TRUE,
     raised |-> FALSE,
     obj |-> force_json(OrEmpty(arg)),
     path |-> IF FastPath(s).some THEN "fast"
              ELSE IF ForceJsonFallback(s).some THEN "fallback" ELSE "none"]

\* ------------------------------------------------------------------ JSON texts
\* the text of a value, as a JSON writer lays it out without whitespace
RECURSIVE RenderValue(_)
RECURSIVE RenderMembers(_, _)
RenderValue(x) ==
  CASE x.t = "str" -> <<S(x.v)>>
    [] x.t = "bool" -> <<Tok("lit", x.v)>>
    [] x.t = "num" -> <<Num(x.v)>>
    [] x.t = "dict" -> <<LBRACE>> \o RenderMembers(x.m, DOMAIN x.m) \o <<RBRACE>>
    [] OTHER -> <<LitNull>>
RenderMembers(m, keys) ==
  IF keys = {} THEN <<>>
  ELSE LET k == CHOOSE k \in keys : TRUE IN
    <<S(k), COLON>> \o RenderValue(m[k])
      \o (IF keys = {k} THEN <<>> ELSE <<COMMA>> \o RenderMembers(m, keys \ {k}))

\* the members of an object text, "key" : value after "key" : value, with `gap`
\* as the whitespace between tokens
RECURSIVE RenderItems(_, _)
RenderItems(items, gap) ==
  IF items = <<>> THEN <<>>
  ELSE <<S(Head(items)[1])>> \o gap \o <<COLON>> \o gap \o RenderValue(Head(items)[2]) \o gap
         \o (IF Tail(items) = <<>> THEN <<>> ELSE <<COMMA>> \o gap \o RenderItems(Tail(items), gap))

\* the text of the JSON object with these items, `outer` around it
ObjectText(items, gap, outer) ==
  outer \o <<LBRACE>> \o gap \o RenderItems(items, gap) \o <<RBRACE>> \o outer

\* the mapping an object text with these items denotes: of the items of one
\* key the last one counts
Denoted(items) ==
  LET keys == {items[n][1] : n \in 1..Len(items)}
      lastOf(k) == CHOOSE n \in 1..Len(items) :
                     items[n][1] = k /\ \A n2 \in (n + 1)..Len(items) : items[n2][1] # k IN
    PyDict([k \in keys |-> items[lastOf(k)][2]])

Gaps == {<<>>, <<WS>>}
ItemKeys == {"a", "b"}
ItemValues == {PyStr("a"), PyBool(TRUE), PyNone, PyNum("1"), EmptyDict,
               PyDict("a" :> PyStr("x"))}
Items == UNION {[1..n -> ItemKeys \X ItemValues] : n \in 0..MaxItems}

\* every text of at most MaxTextLen of these tokens
Alphabet == {LBRACE, RBRACE, COLON, COMMA, WS, S("a"), LitTrue, Word("x")}
Texts == UNION {[1..n -> Alphabet] : n \in 0..MaxTextLen}

NoItems == [some |-> FALSE, items |-> <<>>]
SomeItems(items) == [some |-> TRUE, items |-> items]

\* ------------------------------------------------------------------ the orchestrators, call by call
\* what one chat_once call comes to for its caller: a text returned, or an
\* exception raised
Outcomes(texts) ==
  {[ok |-> TRUE, text |-> t] : t \in texts} \cup {[ok |-> FALSE, text |-> <<>>]}

NoRun ==
  [pc |-> "none", rounds |-> 0, r |-> 0, messages |-> <<>>, last_a |-> None,
   last_b |-> None, calls |-> 0, failed |-> 0]

\* a run after the transcript and last_pro / last_con are set up; pc is the
\* chat_once call the run makes next ("A", "B", "arb"), "returned" or "raised"
RunAtStart(system, R) ==
  [pc |-> IF R > 0 THEN "A" ELSE "arb", rounds |-> R, r |-> 0, messages |-> <<system>>,
   last_a |-> None, last_b |-> None, calls |-> 0, failed |-> 0]

\* the exception of call number st.calls + 1 leaves the run
RaisedAt(st) == [st EXCEPT !.pc = "raised", !.calls = @ + 1, !.failed = st.calls + 1]

\* run_single_debate of debate_eval.py, from one chat_once call to the next
run_single_debate(st, o) ==
  CASE st.pc = "A" ->
         \* pro_text = chat_once(model, messages + [pro_instruction])
         IF o.ok
         THEN [st EXCEPT !.messages = Append(@, Msg("assistant", o.text)),
                         !.last_a = Some(o.text), !.calls = @ + 1, !.pc = "B"]
         ELSE RaisedAt(st)
    [] st.pc = "B" ->
         \* con_text = chat_once(model, messages + [con_instruction])
         IF o.ok
         THEN [st EXCEPT !.messages = Append(@, Msg("assistant", o.text)),
                         !.last_b = Some(o.text), !.calls = @ + 1, !.r = @ + 1,
                         !.pc = IF st.r + 1 < st.rounds THEN "A" ELSE "arb"]
         ELSE RaisedAt(st)
    [] st.pc = "arb" ->
         \* messages.append(judge_prompt); judge_raw = chat_once(model, messages)
         LET prompted == [st EXCEPT !.messages = Append(@, ArbPrompt("debate"))] IN
           IF o.ok
           THEN [prompted EXCEPT !.calls = @ + 1, !.pc = "returned"]
           ELSE RaisedAt(prompted)
    [] OTHER -> st

\* run_single_alignment mistaken: the mediator is called with
\* messages + [mediator_prompt], as the agents are
run_single_alignment_PromptAside(st, o) ==
  CASE st.pc = "A" ->
         IF o.ok
         THEN [st EXCEPT !.messages = Append(@, Msg("assistant", o.text)),
                         !.last_a = Some(o.text), !.calls = @ + 1, !.pc = "B"]
         ELSE RaisedAt(st)
    [] st.pc = "B" ->
         IF o.ok
         THEN [st EXCEPT !.messages = Append(@, Msg("assistant", o.text)),
                         !.last_b = Some(o.text), !.calls = @ + 1, !.r = @ + 1,
                         !.pc = IF st.r + 1 < st.rounds THEN "A" ELSE "arb"]
         ELSE RaisedAt(st)
    [] st.pc = "arb" ->
         IF o.ok
         THEN [st EXCEPT !.calls = @ + 1, !.pc = "returned"]
         ELSE RaisedAt(st)
    [] OTHER -> st

\* run_single_alignment of debate_nojudge.py, from one chat_once call to the next
run_single_alignment(st, o) ==
  CASE st.pc = "A" ->
         \* a_text = chat_once(model, messages + [a_instruction])
         IF o.ok
         THEN [st EXCEPT !.messages = Append(@, Msg("assistant", o.text)),
                         !.last_a = Some(o.text), !.calls = @ + 1, !.pc = "B"]
         ELSE RaisedAt(st)
    [] st.pc = "B" ->
         \* b_text = chat_once(model, messages + [b_instruction])
         IF o.ok
         THEN [st EXCEPT !.messages = Append(@, Msg("assistant", o.text)),
                         !.last_b = Some(o.text), !.calls = @ + 1, !.r = @ + 1,
                         !.pc = IF st.r + 1 < st.rounds THEN "A" ELSE "arb"]
         ELSE RaisedAt(st)
    [] st.pc = "arb" ->
         \* messages.append(mediator_prompt); mediator_raw = chat_once(model, messages)
         LET prompted == [st EXCEPT !.messages = Append(@, ArbPrompt("nojudge"))] IN
           IF o.ok
           THEN [prompted EXCEPT !.calls = @ + 1, !.pc = "returned"]
           ELSE RaisedAt(prompted)
    [] OTHER -> st

\* ------------------------------------------------------------------ provider
\* what openai.chat.completions.create does: raises, or returns a response that
\* lacks `choices`, whose choice lacks `message`, whose content is None, or text
ResponseKinds == {"text", "null", "nochoices", "nomessage", "raise"}
Responses(texts, ks) ==
  {[kind |-> "text", content |-> t] : t \in (IF "text" \in ks THEN texts ELSE {})}
    \cup {[kind |-> k, content |-> <<>>] : k \in ks \ {"text"}}

\* no response yet
NoResponse == [kind |-> "none", content |-> <<>>]

\* WellFormed mistaken: no guard on `message`, a choice without one reads as a
\* choice without content
WellFormed_NoMessageGuard(resp) == resp.kind \in {"text", "null", "nomessage"}

\* the two hasattr guards of chat_once pass
WellFormed(resp) == resp.kind \in {"text", "null"}

\* choice.message.content or ""
ContentOrEmpty(resp) == IF resp.kind = "text" THEN resp.content ELSE <<>>

\* the exception one attempt ends with
ErrorOf(resp) ==
  CASE resp.kind = "nochoices" -> "TypeError: Unexpected response type"
    [] resp.kind = "nomessage" -> "TypeError: Malformed ChatCompletion"
    [] OTHER -> "APIError: provider"

\* time.sleep(sleep_s * attempt), in half seconds (sleep_s = 1.5)
sleep_s == 3
\* Backoff mistaken: the same wait after every failed attempt
Backoff_Fixed(attempt) == sleep_s

Backoff(attempt) == sleep_s * attempt

\* ------------------------------------------------------------------ results
\* run_single_debate, after the judge replied: (winner, rationale)
DebateResult(judge_raw) ==
  LET obj == force_json(judge_raw) IN
    [first |-> IF obj.some THEN DictGet(obj.val, "winner") ELSE PyNone,
     second |-> IF obj.some THEN DictGet(obj.val, "rationale") ELSE PyNone]

\* mutant: bool(agreed) without the isinstance test
AlignmentResult_Coerced(mediator_raw) ==
  LET got == force_json(mediator_raw)
      obj == IF got.some /\ Truthy(got.val) THEN got.val ELSE EmptyDict
      agreed == DictGet(obj, "agreed") IN
    [first |-> IF agreed = PyNone THEN PyNone ELSE PyBool(Truthy(agreed)),
     second |-> IF Truthy(obj) THEN obj ELSE PyNone]

\* run_single_alignment, after the mediator replied: (agreed, agreement_obj)
AlignmentResult(mediator_raw) ==
  LET got == force_json(mediator_raw)
      obj == IF got.some /\ Truthy(got.val) THEN got.val ELSE EmptyDict
      agreed == DictGet(obj, "agreed") IN
    [first |-> IF IsBool(agreed) THEN agreed ELSE PyNone,
     second |-> IF Truthy(obj) THEN obj ELSE PyNone]

\* a or b
PyOr(a, b) == IF Truthy(a) THEN a ELSE b

\* f"Agreement reached. Decision: {decision_text}"
Formatted(prefix, arg) == [t |-> "str", v |-> prefix, m |-> ("arg" :> arg)]

\* save_run_log of debate_eval.py: the record appended to results.jsonl
DebateRecord(run_id, nrounds, winner, rationale, transcript) ==
  [run_id |-> run_id, rounds |-> nrounds, winner |-> winner,
   rationale |-> rationale, transcript |-> transcript]

\* AlignmentRecord mistaken: the record keeps bool(agreed), so that an unknown
\* outcome is written as false
AlignmentRecord_Collapsed(run_id, nrounds, agreed, agreement_obj, transcript) ==
  LET rationale_text == IF IsDict(agreement_obj)
                        THEN PyOr(DictGet(agreement_obj, "rationale"), PyStr(""))
                        ELSE PyStr("")
      decision_text == IF IsDict(agreement_obj)
                       THEN PyOr(DictGet(agreement_obj, "decision"), PyStr(""))
                       ELSE PyStr("")
      winner == IF agreed = PyBool(TRUE) THEN PyStr("agree") ELSE PyStr("none")
      rationale ==
        IF agreed = PyBool(TRUE)
        THEN PyOr(rationale_text,
                  IF Truthy(decision_text)
                  THEN Formatted("Agreement reached. Decision: ", decision_text)
                  ELSE PyStr("Agreement reached."))
        ELSE IF agreed = PyBool(FALSE)
        THEN PyOr(rationale_text, PyStr("No agreement."))
        ELSE PyOr(rationale_text, PyStr("Agreement status unknown.")) IN
    [run_id |-> run_id, rounds |-> nrounds, winner |-> winner, rationale |-> rationale,
     agreed |-> PyBool(agreed = PyBool(TRUE)), agreement |-> agreement_obj, transcript |-> transcript]

\* save_run_log of debate_nojudge.py: the record appended to
\* results_nojudge_variants.jsonl
AlignmentRecord(run_id, nrounds, agreed, agreement_obj, transcript) ==
  LET rationale_text == IF IsDict(agreement_obj)
                        THEN PyOr(DictGet(agreement_obj, "rationale"), PyStr(""))
                        ELSE PyStr("")
      decision_text == IF IsDict(agreement_obj)
                       THEN PyOr(DictGet(agreement_obj, "decision"), PyStr(""))
                       ELSE PyStr("")
      winner == IF agreed = PyBool(TRUE) THEN PyStr("agree") ELSE PyStr("none")
      rationale ==
        IF agreed = PyBool(TRUE)
        THEN PyOr(rationale_text,
                  IF Truthy(decision_text)
                  THEN Formatted("Agreement reached. Decision: ", decision_text)
                  ELSE PyStr("Agreement reached."))
        ELSE IF agreed = PyBool(FALSE)
        THEN PyOr(rationale_text, PyStr("No agreement."))
        ELSE PyOr(rationale_text, PyStr("Agreement status unknown.")) IN
    [run_id |-> run_id, rounds |-> nrounds, winner |-> winner, rationale |-> rationale,
     agreed |-> agreed, agreement |-> agreement_obj, transcript |-> transcript]

\* the record main writes for a run that returned
CompletedRecord(v, run_id, nrounds, res, transcript) ==
  IF v = "debate"
  THEN DebateRecord(run_id, nrounds, res.first, res.second, transcript)
  ELSE AlignmentRecord(run_id, nrounds, res.first, res.second, transcript)

\* the record main writes in its except branch
FailedRecord(v, run_id, nrounds, err) ==
  IF v = "debate"
  THEN DebateRecord(run_id, nrounds, PyNone, Formatted("ERROR: ", PyStr(err)), <<>>)
  ELSE AlignmentRecord(run_id, nrounds, PyNone, PyDict("error" :> PyStr(err)), <<>>)

\* Scores mistaken: any winner counts, the action side is not looked at
Scores_AnyWinner(v, side, res) ==
  IF v = "debate"
  THEN res.first \in {PyStr("pro"), PyStr("con")}
  ELSE res.first = PyBool(TRUE)

\* main's scoring of a run that returned: 1 when it counts as a win / an agreement
Scores(v, side, res) ==
  IF v = "debate"
  THEN res.first \in {PyStr("pro"), PyStr("con")} /\ res.first = PyStr(side)
  ELSE res.first = PyBool(TRUE)

\* ------------------------------------------------------------------ inputs
\* replies of the participants: the empty string and two texts
RoundTexts == {<<>>, <<Word("a")>>, <<Word("b")>>}

Obj1(k, val) == <<LBRACE, S(k), COLON, val, RBRACE>>
Obj2(k1, v1, k2, v2) == <<LBRACE, S(k1), COLON, v1, COMMA, S(k2), COLON, v2, RBRACE>>

\* replies of the judge / the mediator
ArbTexts ==
  { Obj2("winner", S("pro"), "rationale", S("clear rebuttals")),
    Obj1("winner", S("con")),
    Obj1("winner", S("tie")),
    Obj1("winner", Num("1")),
    Obj1("winner", LitNull),
    Obj1("rationale", S("no winner named")),
    <<LBRACE, RBRACE>>,
    <<>>,
    <<Word("I"), WS, Word("cannot"), WS, Word("decide")>>,
    <<S("pro")>>,
    <<Word("Verdict"), WS>> \o Obj1("winner", S("con")) \o <<WS, Word("thanks")>>,
    Obj1("winner", S("pro")) \o <<WS>> \o Obj1("winner", S("con")),
    Obj2("agreed", LitTrue, "rationale", S("shared plan")),
    Obj2("agreed", LitTrue, "decision", S("take action")),
    Obj1("agreed", LitTrue),
    Obj2("agreed", LitFalse, "rationale", S("timeline conflict")),
    Obj1("agreed", LitFalse),
    Obj1("agreed", S("false")),
    Obj1("agreed", Num("0")),
    Obj1("agreed", LitNull),
    <<Word("Result"), WS>> \o Obj1("agreed", LitTrue) }

\* the replies of a provider that answers every turn the same way
BatchRoundTexts == {<<Word("a")>>}
BatchArbTexts ==
  { Obj2("winner", S("pro"), "rationale", S("clear rebuttals")),
    Obj1("agreed", LitTrue),
    <<Word("I"), WS, Word("cannot"), WS, Word("decide")>> }

\* ------------------------------------------------------------------ state
VARIABLES
  variant,      \* "debate" (debate_eval.py) or "nojudge" (debate_nojudge.py)
  action_side,  \* --action-side (debate only)
  rounds,       \* --rounds
  runs,         \* --runs
  retry,        \* chat_once's retry
  roundTexts,   \* the texts the provider may return on a round turn
  arbTexts,     \* the texts the provider may return on the arbitration turn
  kinds,        \* the kinds of response the provider may give
  pc,           \* where main is: main, turnA, waitA, turnB, waitB, arb, waitArb, done
  i,            \* main: runs attempted so far
  r,            \* run_single_*: rounds finished
  messages,     \* run_single_*: the transcript
  last_a,       \* last_pro / last_a
  last_b,       \* last_con / last_b
  arb_raw,      \* judge_raw / mediator_raw (None before the reply)
  sent,         \* chat_once: the conversation of the current call
  attempt,      \* chat_once: the attempt in progress
  errs,         \* chat_once: the errors of the failed attempts of the current call
  sleeps,       \* chat_once: the waits of the current call
  got,          \* chat_once: resp, what the provider did on the last attempt made
  calls,        \* chat_once calls of the current run
  order,        \* whose turn each chat_once call of the current run was
  requests,     \* openai.chat.completions.create calls of the run in progress (0 between runs)
  ret,          \* what run_single_* returned
  exc,          \* the exception main caught in this run ("" when none)
  sink,         \* the lines of the results file
  completed,    \* main: completed
  wins,         \* main: wins / agreements
  summary,      \* main: what the summary printed ("" before it)
  fj_arg,       \* force_json: the argument of a call made on its own
  fj_src,       \* the items the argument was written from, when it was
  fj_out,       \* force_json: how that call ended ("called" FALSE before it)
  d_run,        \* run_single_debate, run side by side with run_single_alignment
  n_run         \* run_single_alignment, run side by side with run_single_debate

params == <<variant, action_side, rounds, runs, retry, roundTexts, arbTexts, kinds>>
chat == <<sent, attempt, errs, sleeps, got>>
run == <<r, messages, last_a, last_b, arb_raw>>
driver == <<i, ret, exc, sink, completed, wins, summary>>
extractor == <<fj_arg, fj_src, fj_out>>
pair == <<d_run, n_run>>
vars == <<params, pc, run, chat, calls, order, requests, driver, extractor, pair>>

NoResult == [first |-> PyNone, second |-> PyNone]

InitCommon ==
  /\ variant \in {"debate", "nojudge"}
  /\ action_side \in (IF variant = "debate" THEN {"pro", "con"} ELSE {"pro"})
  /\ rounds \in 0..MaxRounds
  /\ pc = "main"
  /\ i = 0
  /\ r = 0
  /\ messages = <<>>
  /\ last_a = None
  /\ last_b = None
  /\ arb_raw = None
  /\ sent = <<>>
  /\ attempt = 0
  /\ errs = <<>>
  /\ sleeps = <<>>
  /\ got = NoResponse
  /\ calls = 0
  /\ order = <<>>
  /\ requests = 0
  /\ ret = NoResult
  /\ exc = ""
  /\ sink = <<>>
  /\ completed = 0
  /\ wins = 0
  /\ summary = ""

\* one run of the program as it is called (retry = 3) against a provider that
\* answers every request, with any of the reply texts or with no content
InitDialogue ==
  /\ runs = 1
  /\ retry = DefaultRetry
  /\ roundTexts = RoundTexts
  /\ arbTexts = ArbTexts
  /\ kinds = {"text", "null"}

\* a batch of runs, for every retry, against a provider of few words that raises
\* or answers with responses of any shape
InitBatch ==
  /\ runs \in 0..MaxRuns
  /\ retry \in 1..MaxRetry
  /\ roundTexts = BatchRoundTexts
  /\ arbTexts = BatchArbTexts
  /\ kinds = ResponseKinds \ {"null"}

\* no call of force_json on its own
ExtractorIdle ==
  /\ fj_arg = None
  /\ fj_src = NoItems
  /\ fj_out = NotCalled

\* no orchestrators side by side
PairIdle ==
  /\ d_run = NoRun
  /\ n_run = NoRun

Init == InitCommon /\ (InitDialogue \/ InitBatch) /\ ExtractorIdle /\ PairIdle

\* ------------------------------------------------------------------ actions
\* StartRun mistaken: the list of the run before is used again (one `messages`
\* for the whole batch), so a later run goes on from the transcript it finds
StartRun_SharedTranscript ==
  /\ pc = "main"
  /\ i < runs
  /\ messages' = IF messages = <<>> THEN <<SystemMsg(variant)>> ELSE messages
  /\ last_a' = None
  /\ last_b' = None
  /\ arb_raw' = None
  /\ r' = 0
  /\ calls' = 0
  /\ order' = <<>>
  /\ requests' = 0
  /\ ret' = NoResult
  /\ exc' = ""
  /\ pc' = IF rounds > 0 THEN "turnA" ELSE "arb"
  /\ UNCHANGED <<params, extractor, pair, chat, i, sink, completed, wins, summary>>

\* main's loop enters run i+1; run_single_* builds the transcript
StartRun ==
  /\ pc = "main"
  /\ i < runs
  /\ messages' = <<SystemMsg(variant)>>
  /\ last_a' = None
  /\ last_b' = None
  /\ arb_raw' = None
  /\ r' = 0
  /\ calls' = 0
  /\ order' = <<>>
  /\ requests' = 0
  /\ ret' = NoResult
  /\ exc' = ""
  /\ pc' = IF rounds > 0 THEN "turnA" ELSE "arb"
  /\ UNCHANGED <<params, extractor, pair, chat, i, sink, completed, wins, summary>>

\* chat_once is entered with `conversation`
EnterChat(turn, conversation) ==
  /\ sent' = conversation
  /\ attempt' = 1
  /\ errs' = <<>>
  /\ sleeps' = <<>>
  /\ got' = NoResponse
  /\ calls' = calls + 1
  /\ order' = Append(order, turn)
  /\ requests' = requests + 1

\* participant A's turn: chat_once(model, messages + [instruction])
CallA ==
  /\ pc = "turnA"
  /\ EnterChat("A", Append(messages, InstructionA(variant, last_b)))
  /\ pc' = "waitA"
  /\ UNCHANGED <<params, extractor, pair, run, driver>>

\* CallB mistaken: the directive is appended to the transcript, as the
\* arbitration prompt is
CallB_AppendsDirective ==
  /\ pc = "turnB"
  /\ messages' = Append(messages, InstructionB(variant, last_a))
  /\ EnterChat("B", messages')
  /\ pc' = "waitB"
  /\ UNCHANGED <<params, extractor, pair, r, last_a, last_b, arb_raw, driver>>

\* participant B's turn
CallB ==
  /\ pc = "turnB"
  /\ EnterChat("B", Append(messages, InstructionB(variant, last_a)))
  /\ pc' = "waitB"
  /\ UNCHANGED <<params, extractor, pair, run, driver>>

\* the arbitration turn: messages.append(prompt); chat_once(model, messages)
CallArb ==
  /\ pc = "arb"
  /\ messages' = Append(messages, ArbPrompt(variant))
  /\ EnterChat("arb", messages')
  /\ pc' = "waitArb"
  /\ UNCHANGED <<params, extractor, pair, r, last_a, last_b, arb_raw, driver>>

Waiting == pc \in {"waitA", "waitB", "waitArb"}
TextsNow == IF pc = "waitArb" THEN arbTexts ELSE roundTexts

\* mutant: range(1, retry + 2), one attempt too many
Retry_OneTooMany(resp) ==
  /\ Waiting
  /\ ~WellFormed(resp)
  /\ attempt <= retry
  /\ errs' = Append(errs, ErrorOf(resp))
  /\ got' = resp
  /\ sleeps' = Append(sleeps, Backoff(attempt))
  /\ attempt' = attempt + 1
  /\ requests' = requests + 1
  /\ UNCHANGED <<params, extractor, pair, pc, run, sent, calls, order, driver>>

\* an attempt that is not the last one raises: chat_once sleeps and tries again
Retry(resp) ==
  /\ Waiting
  /\ ~WellFormed(resp)
  /\ attempt < retry
  /\ errs' = Append(errs, ErrorOf(resp))
  /\ got' = resp
  /\ sleeps' = Append(sleeps, Backoff(attempt))
  /\ attempt' = attempt + 1
  /\ requests' = requests + 1
  /\ UNCHANGED <<params, extractor, pair, pc, run, sent, calls, order, driver>>

\* mutant: the except branch of main only warns, and writes no record
Raise_Unlogged(resp) ==
  /\ Waiting
  /\ ~WellFormed(resp)
  /\ attempt = retry
  /\ errs' = Append(errs, ErrorOf(resp))
  /\ got' = resp
  /\ exc' = ErrorOf(resp)
  /\ i' = i + 1
  /\ pc' = "main"
  /\ requests' = 0
  /\ UNCHANGED <<params, extractor, pair, run, sent, attempt, sleeps, calls, order, ret, sink, completed, wins, summary>>

\* Raise mistaken: run_single_* catches what chat_once raised and calls it again
\* for the same turn
Raise_TurnAgain(resp) ==
  /\ Waiting
  /\ ~WellFormed(resp)
  /\ attempt = retry
  /\ errs' = <<>>
  /\ sleeps' = <<>>
  /\ got' = resp
  /\ attempt' = 1
  /\ exc' = ErrorOf(resp)
  /\ calls' = calls + 1
  /\ order' = Append(order, order[Len(order)])
  /\ requests' = requests + 1
  /\ UNCHANGED <<params, extractor, pair, pc, run, sent, i, ret, sink, completed, wins, summary>>

\* the last attempt raises: chat_once re-raises, run_single_* is left, and main's
\* except branch logs the failed run and goes on
Raise(resp) ==
  /\ Waiting
  /\ ~WellFormed(resp)
  /\ attempt = retry
  /\ errs' = Append(errs, ErrorOf(resp))
  /\ got' = resp
  /\ exc' = ErrorOf(resp)
  /\ sink' = Append(sink, FailedRecord(variant, i + 1, rounds, ErrorOf(resp)))
  /\ i' = i + 1
  /\ pc' = "main"
  /\ requests' = 0
  /\ UNCHANGED <<params, extractor, pair, run, sent, attempt, sleeps, calls, order, ret, completed, wins, summary>>

\* chat_once returns: its locals are gone (attempt keeps the attempts it made)
LeaveChat ==
  /\ sent' = <<>>
  /\ errs' = <<>>
  /\ sleeps' = <<>>
  /\ UNCHANGED attempt

\* participant A's reply is appended
ReplyA(resp) ==
  /\ pc = "waitA"
  /\ WellFormed(resp)
  /\ got' = resp
  /\ LeaveChat
  /\ messages' = Append(messages, Assistant(ContentOrEmpty(resp)))
  /\ last_a' = Some(ContentOrEmpty(resp))
  /\ pc' = "turnB"
  /\ UNCHANGED <<params, extractor, pair, r, last_b, arb_raw, calls, order, requests, driver>>

\* ReplyB mistaken: the loop over the rounds is left after the first round
ReplyB_OneRound(resp) ==
  /\ pc = "waitB"
  /\ WellFormed(resp)
  /\ got' = resp
  /\ LeaveChat
  /\ messages' = Append(messages, Assistant(ContentOrEmpty(resp)))
  /\ last_b' = Some(ContentOrEmpty(resp))
  /\ r' = r + 1
  /\ pc' = "arb"
  /\ UNCHANGED <<params, extractor, pair, last_a, arb_raw, calls, order, requests, driver>>

\* ReplyB mistaken: the round is not counted, the loop over the rounds goes on
ReplyB_NoCount(resp) ==
  /\ pc = "waitB"
  /\ WellFormed(resp)
  /\ got' = resp
  /\ LeaveChat
  /\ messages' = Append(messages, Assistant(ContentOrEmpty(resp)))
  /\ last_b' = Some(ContentOrEmpty(resp))
  /\ r' = r
  /\ pc' = IF r + 1 < rounds THEN "turnA" ELSE "arb"
  /\ UNCHANGED <<params, extractor, pair, last_a, arb_raw, calls, order, requests, driver>>

\* participant B's reply is appended; the round ends
ReplyB(resp) ==
  /\ pc = "waitB"
  /\ WellFormed(resp)
  /\ got' = resp
  /\ LeaveChat
  /\ messages' = Append(messages, Assistant(ContentOrEmpty(resp)))
  /\ last_b' = Some(ContentOrEmpty(resp))
  /\ r' = r + 1
  /\ pc' = IF r + 1 < rounds THEN "turnA" ELSE "arb"
  /\ UNCHANGED <<params, extractor, pair, last_a, arb_raw, calls, order, requests, driver>>

\* the arbitration reply `raw` gave `res`, which run_single_* returns with the
\* transcript: main logs the run and counts it
Completed(raw, res) ==
  /\ LeaveChat
  /\ arb_raw' = Some(raw)
  /\ ret' = res
  /\ sink' = Append(sink, CompletedRecord(variant, i + 1, rounds, res, messages))
  /\ completed' = completed + 1
  /\ wins' = IF Scores(variant, action_side, res) THEN wins + 1 ELSE wins
  /\ i' = i + 1
  /\ pc' = "main"
  /\ requests' = 0
  /\ UNCHANGED <<params, extractor, pair, r, messages, last_a, last_b, calls, order, exc, summary>>

\* the judge replied (debate_eval.py)
JudgeReply(resp) ==
  /\ pc = "waitArb"
  /\ variant = "debate"
  /\ WellFormed(resp)
  /\ got' = resp
  /\ Completed(ContentOrEmpty(resp), DebateResult(ContentOrEmpty(resp)))

\* the mediator replied (debate_nojudge.py)
MediatorReply(resp) ==
  /\ pc = "waitArb"
  /\ variant = "nojudge"
  /\ WellFormed(resp)
  /\ got' = resp
  /\ Completed(ContentOrEmpty(resp), AlignmentResult(ContentOrEmpty(resp)))

\* main's loop is over: the summary
Summary ==
  /\ pc = "main"
  /\ i = runs
  /\ summary' = IF completed > 0 THEN "rate" ELSE "no successful runs"
  /\ pc' = "done"
  /\ UNCHANGED <<params, extractor, pair, run, chat, calls, order, requests, i, ret, exc, sink, completed, wins>>

Next ==
  \/ StartRun
  \/ CallA
  \/ CallB
  \/ CallArb
  \/ \E resp \in Responses(TextsNow, kinds) : Retry(resp)
  \/ \E resp \in Responses(TextsNow, kinds) : Raise(resp)
  \/ \E resp \in Responses(TextsNow, kinds) : ReplyA(resp)
  \/ \E resp \in Responses(TextsNow, kinds) : ReplyB(resp)
  \/ \E resp \in Responses(TextsNow, kinds) : JudgeReply(resp)
  \/ \E resp \in Responses(TextsNow, kinds) : MediatorReply(resp)
  \/ Summary

Spec == Init /\ [][Next]_vars

\* a batch against a provider of one word that raises or answers
InitPlain ==
  /\ runs \in 0..MaxRuns
  /\ retry \in 1..MaxRetry
  /\ roundTexts = BatchRoundTexts
  /\ arbTexts = {<<Word("I"), WS, Word("cannot"), WS, Word("decide")>>}
  /\ kinds = {"text", "raise"}

LiveInit == InitCommon /\ InitPlain /\ ExtractorIdle /\ PairIdle

\* the program is one sequential process and every request to the provider
\* comes back, with a response or with an exception: a step that can be taken
\* is taken
LiveSpec == LiveInit /\ [][Next]_vars /\ WF_vars(Next)

\* ------------------------------------------------------------------ force_json on its own
\* no run: main is not started
MainIdle ==
  /\ variant = "debate"
  /\ action_side = "pro"
  /\ rounds = 0
  /\ runs = 0
  /\ retry = DefaultRetry
  /\ roundTexts = {}
  /\ arbTexts = {}
  /\ kinds = {}
  /\ pc = "main"
  /\ i = 0
  /\ r = 0
  /\ messages = <<>>
  /\ last_a = None
  /\ last_b = None
  /\ arb_raw = None
  /\ sent = <<>>
  /\ attempt = 0
  /\ errs = <<>>
  /\ sleeps = <<>>
  /\ got = NoResponse
  /\ calls = 0
  /\ order = <<>>
  /\ requests = 0
  /\ ret = NoResult
  /\ exc = ""
  /\ sink = <<>>
  /\ completed = 0
  /\ wins = 0
  /\ summary = ""

\* the argument: None, any text of few tokens, any arbitration text, or the
\* text of a JSON object written from its items
ExtractInit ==
  /\ MainIdle
  /\ PairIdle
  /\ fj_out = NotCalled
  /\ \/ fj_src = NoItems /\ fj_arg \in {None} \cup {Some(t) : t \in Texts \cup ArbTexts}
     \/ \E items \in Items, gap \in Gaps, outer \in Gaps :
          /\ fj_src = SomeItems(items)
          /\ fj_arg = Some(ObjectText(items, gap, outer))

\* force_json(fj_arg) is called
Extract ==
  /\ ~fj_out.called
  /\ fj_out' = ForceJsonCall(fj_arg)
  /\ UNCHANGED <<params, pc, run, chat, calls, order, requests, driver, pair, fj_arg, fj_src>>

ExtractNext == Extract
ExtractSpec == ExtractInit /\ [][ExtractNext]_vars

\* ------------------------------------------------------------------ the two orchestrators side by side
\* run_single_debate and run_single_alignment are called with the same rounds
PairInit ==
  /\ MainIdle
  /\ ExtractorIdle
  /\ \E R \in 0..MaxRounds :
       /\ d_run = RunAtStart(SystemMsg("debate"), R)
       /\ n_run = RunAtStart(SystemMsg("nojudge"), R)

Running(st) == st.pc \in {"A", "B", "arb"}

\* the next chat_once call of each orchestrator that is still running comes to
\* the same outcome
PairStep ==
  /\ \E st \in {d_run, n_run} : Running(st)
  /\ \E o \in Outcomes(RoundTexts) :
       /\ d_run' = run_single_debate(d_run, o)
       /\ n_run' = run_single_alignment(n_run, o)
  /\ UNCHANGED <<params, pc, run, chat, calls, order, requests, driver, extractor>>

PairNext == PairStep
PairSpec == PairInit /\ [][PairNext]_vars

\* ------------------------------------------------------------------ vocabulary
\* main is between runs (or past the loop) and the last run returned / failed
BetweenRuns == pc \in {"main", "done"} /\ i >= 1
RunReturned == BetweenRuns /\ exc = ""
RunFailed == BetweenRuns /\ exc # ""

IsAssistant(m) == m.role = "assistant"
\* the replies appended to a transcript, in order
Replies(transcript) == SelectSeq(transcript, IsAssistant)

\* how main marks the record of a failed run
IsFailedRecord(rec) ==
  IF variant = "debate"
  THEN rec.winner = PyNone /\ rec.rationale.t = "str" /\ rec.rationale.v = "ERROR: "
  ELSE rec.agreed = PyNone /\ IsDict(rec.agreement) /\ "error" \in DOMAIN rec.agreement.m

IsProtocolViolation(err) ==
  err \in {"TypeError: Unexpected response type", "TypeError: Malformed ChatCompletion"}

\* the value the extractor recovered for `key` from the arbitration reply
\* (None: nothing recovered, or no such key)
Recovered(key) ==
  LET obj == force_json(arb_raw.text) IN
    IF obj.some THEN DictGet(obj.val, key) ELSE PyNone

\* ------------------------------------------------------------------ claims
\* C1: a run in which every gateway call succeeds returns a transcript of
\* 1 + 2R + 1 messages: the system message, two replies per round, and the
\* arbitration reply as the last message.
C1_TranscriptIsSystemRepliesVerdict ==
  RunReturned =>
    /\ Len(messages) = 1 + 2 * rounds + 1
    /\ messages[1] = SystemMsg(variant)
    /\ \A k \in 2..(2 * rounds + 1) : messages[k].role = "assistant"
    /\ messages[Len(messages)] = Assistant(arb_raw.text)

\* C2: in every state of a run, and in what is handed to the driver, every
\* message of the transcript has role system or assistant: no directive (role
\* user) is ever a member of the transcript.
C2_NoDirectiveInTranscript ==
  /\ \A k \in 1..Len(messages) : messages[k].role \in {"system", "assistant"}
  /\ \A n \in 1..Len(sink) : \A k \in 1..Len(sink[n].transcript) :
       sink[n].transcript[k].role \in {"system", "assistant"}

\* C3: when the gateway raises on turn k of a run, the record of that run is
\* marked failed and its transcript is the system message followed by the k-1
\* replies appended before the failure.
C3_FailedRecordKeepsTranscript ==
  RunFailed =>
    /\ IsFailedRecord(sink[i])
    /\ Len(Replies(messages)) = calls - 1
    /\ sink[i].transcript = <<SystemMsg(variant)>> \o Replies(messages)

\* C4: in every round r the directive sent for participant B quotes
\* participant A's reply of that same round, and the conversation sent with
\* it is the transcript, which already ends with that reply.
C4_BQuotesSameRoundReply ==
  pc = "waitB" =>
    /\ Len(messages) = 2 * r + 2
    /\ IsAssistant(messages[2 * r + 2])
    /\ SubSeq(sent, 1, Len(sent) - 1) = messages
    /\ sent[Len(sent)].role = "user"
    /\ Tail(sent[Len(sent)].content) = messages[2 * r + 2].content

\* C5: the winner run_single_debate returns, and main writes to the record, is
\* the recovered winner value if and only if that value is exactly "pro" or
\* "con", and None otherwise; the reply {"winner":"pro","rationale":"clear
\* rebuttals"} yields "pro".
C5_WinnerOnlyProOrCon ==
  (variant = "debate" /\ RunReturned) =>
    /\ ret.first = IF Recovered("winner") \in {PyStr("pro"), PyStr("con")}
                   THEN Recovered("winner") ELSE PyNone
    /\ sink[i].winner = ret.first
    /\ arb_raw.text = Obj2("winner", S("pro"), "rationale", S("clear rebuttals"))
         => ret.first = PyStr("pro")

\* C6: run_single_alignment returns agreed = True / False only when the
\* recovered `agreed` field is that genuine boolean; a missing field, a
\* non-boolean ("false", 0, null) or a failed extraction gives None, never False.
C6_AgreedOnlyGenuineBool ==
  (variant = "nojudge" /\ RunReturned) =>
    /\ ret.first \in {PyBool(TRUE), PyBool(FALSE), PyNone}
    /\ ret.first = PyBool(TRUE) <=> Recovered("agreed") = PyBool(TRUE)
    /\ ret.first = PyBool(FALSE) <=> Recovered("agreed") = PyBool(FALSE)
    /\ arb_raw.text \in {Obj1("agreed", S("false")), Obj1("agreed", Num("0")),
                         Obj1("agreed", LitNull), Obj1("winner", S("pro")),
                         <<Word("I"), WS, Word("cannot"), WS, Word("decide")>>}
         => ret.first = PyNone
    /\ arb_raw.text = Obj1("agreed", LitFalse) => ret.first = PyBool(FALSE)

C6_Witness ==
  /\ variant = "nojudge"
  /\ RunReturned
  /\ arb_raw.text = Obj1("agreed", S("false"))
  /\ Recovered("agreed") = PyStr("false")
  /\ ret.first = PyNone

\* C7: a response lacking the expected shape is a protocol violation that is
\* not retried: chat_once issues no further request in that call.
C7_ProtocolViolationNotRetried ==
  Waiting => \A k \in 1..Len(errs) : ~IsProtocolViolation(errs[k])

\* C8: one chat_once call with retry = N >= 1 issues at most N requests; a
\* request is issued only when every earlier attempt of the call raised, so
\* none follows a success; when all N attempts raise, the error of the N-th
\* attempt reaches the caller and no value is returned.
C8_AtMostRetryAttempts ==
  /\ attempt <= retry
  /\ Waiting => (attempt >= 1 /\ Len(errs) = attempt - 1)
  /\ RunFailed =>
       /\ attempt = retry
       /\ Len(errs) = retry
       /\ exc = errs[retry]
       /\ ret = NoResult
       /\ arb_raw = None

C8_Witness ==
  /\ RunFailed
  /\ retry >= 2
  /\ Len(errs) = retry
  /\ errs[1] # errs[retry]
  /\ exc = errs[retry]

\* C9: in a batch of N runs of which any may fail, the driver attempts all N
\* in order and the sink receives exactly one record per run, in run order; a
\* failed run does not stop the batch, and a written record is never changed
\* or removed.
C9_OneRecordPerRun ==
  /\ [](/\ Len(sink) = i
        /\ i <= runs
        /\ \A n \in 1..Len(sink) : sink[n].run_id = n
        /\ pc = "done" => i = runs
        /\ (pc = "main" /\ i < runs) => ENABLED StartRun)
  /\ [][/\ Len(sink') \in {Len(sink), Len(sink) + 1}
        /\ SubSeq(sink', 1, Len(sink)) = sink]_vars

C9_Witness ==
  /\ pc = "done"
  /\ runs >= 2
  /\ Len(sink) = runs
  /\ IsFailedRecord(sink[1])
  /\ ~IsFailedRecord(sink[2])

\* an extraction miss: nothing parseable, no mapping, a mapping without the
\* expected key, or the expected field with the wrong type
ExtractionMiss ==
  IF variant = "debate" THEN Recovered("winner").t # "str"
  ELSE ~IsBool(Recovered("agreed"))

\* C10: an extraction miss is never raised: whatever the arbitration reply, a
\* run whose gateway calls all succeed returns, is recorded with its full
\* transcript and counted as completed, with the decision absent / unknown.
C10_ExtractionMissIsUndecided ==
  /\ RunFailed => arb_raw = None
  /\ (RunReturned /\ ExtractionMiss) =>
       /\ ~IsFailedRecord(sink[i])
       /\ sink[i].transcript = messages
       /\ completed >= 1
       /\ ret.first = PyNone
       /\ sink[i].winner \in {PyNone, PyStr("none")}

\* ------------------------------------------------------------------ C11
\* C11: for every text that as a whole, whitespace around it aside, is a JSON
\* object, force_json raises nothing and returns exactly the mapping the text
\* denotes, and it is the fast path that returns it.
C11_WholeObjectFastPath ==
  (fj_src.some /\ fj_out.called) =>
    /\ ~fj_out.raised
    /\ fj_out.obj = SomeObj(Denoted(fj_src.items))
    /\ fj_out.path = "fast"

\* an object text in whitespace, with a repeated key, went through force_json
C11_Witness ==
  /\ fj_src.some
  /\ fj_out.called
  /\ Len(fj_src.items) = 2
  /\ fj_src.items[1][1] = fj_src.items[2][1]
  /\ fj_src.items[1][2] # fj_src.items[2][2]
  /\ Head(fj_arg.text) = WS
  /\ fj_out.obj.some

\* ------------------------------------------------------------------ C12
\* a "{" with a "}" somewhere after it
HasBracePair(t) ==
  \E a \in 1..Len(t), b \in 1..Len(t) : a < b /\ t[a] = LBRACE /\ t[b] = RBRACE

\* C12: for every argument, None and the empty text included, that has no "{"
\* followed later by a "}", force_json raises nothing and returns None.
C12_NoBracePairGivesNone ==
  (fj_out.called /\ ~HasBracePair(OrEmpty(fj_arg))) =>
    /\ ~fj_out.raised
    /\ fj_out.obj = NoObj

\* a text with both braces, every "}" before every "{", went through force_json
C12_Witness ==
  /\ fj_out.called
  /\ fj_arg.some
  /\ \E a \in 1..Len(fj_arg.text) : fj_arg.text[a] = LBRACE
  /\ \E b \in 1..Len(fj_arg.text) : fj_arg.text[b] = RBRACE
  /\ ~HasBracePair(fj_arg.text)

\* ------------------------------------------------------------------ C13
\* what the outermost braces of a text delimit: from its first "{" to its last "}"
Delimited(t) == SubSeq(t, FindFirst(t, LBRACE), FindLast(t, RBRACE))

\* C13: for every text with a "{" and a later "}" whose delimited interior,
\* from the first "{" to the last "}", is not valid JSON, force_json raises
\* nothing and returns None.
C13_BrokenInteriorGivesNone ==
  (/\ fj_out.called
   /\ fj_arg.some
   /\ HasBracePair(fj_arg.text)
   /\ ~JsonLoads(Delimited(fj_arg.text)).ok) =>
    /\ ~fj_out.raised
    /\ fj_out.obj = NoObj

\* a text whose braces delimit an object followed by more text went through
\* force_json: what the first "{" and the first "}" delimit is valid JSON, what
\* the first "{" and the last "}" delimit is not
C13_Witness ==
  /\ fj_out.called
  /\ fj_arg.some
  /\ HasBracePair(fj_arg.text)
  /\ ~JsonLoads(Delimited(fj_arg.text)).ok
  /\ \E b \in 1..Len(fj_arg.text) :
       JsonLoads(SubSeq(fj_arg.text, FindFirst(fj_arg.text, LBRACE), b)).ok

\* ------------------------------------------------------------------ C15
\* the turns of a run of R rounds: A, B, ... A, B and the arbitration
Schedule(R) ==
  [n \in 1..(2 * R + 1) |-> IF n = 2 * R + 1 THEN "arb" ELSE IF n % 2 = 1 THEN "A" ELSE "B"]

IsPrefix(a, b) == Len(a) <= Len(b) /\ a = SubSeq(b, 1, Len(a))

\* C15: the gateway calls of a run are made in the order A, B, A, B, ... and
\* then the arbitration; a run whose calls all succeed makes exactly 2R + 1 of
\* them, the last one the only arbitration call; the arbitration call is made
\* only when the replies of all 2R round turns are in; and the extractor has
\* worked (a result exists) only after the arbitration reply.
C15_CallsFollowSchedule ==
  /\ calls = Len(order)
  /\ IsPrefix(order, Schedule(rounds))
  /\ RunReturned => calls = 2 * rounds + 1 /\ order = Schedule(rounds)
  /\ pc = "waitArb" => Len(Replies(messages)) = 2 * rounds
  /\ (arb_raw.some \/ ret # NoResult) =>
       arb_raw.some /\ order = Schedule(rounds) /\ pc \in {"main", "done"}

\* a run of two rounds or more returned
C15_Witness == RunReturned /\ rounds >= 2 /\ calls = 2 * rounds + 1

\* ------------------------------------------------------------------ C16
\* C16: once the gateway has raised on a turn (main holds an exception of this
\* run) the run is over, with no result and no arbitration reply, and no
\* gateway call or attempt is made until main starts the next run.
C16_NoCallAfterRaise ==
  /\ [](exc # "" => pc \in {"main", "done"} /\ ~arb_raw.some /\ ret = NoResult)
  /\ [][exc # "" =>
          \/ calls' = calls /\ order' = order /\ attempt' = attempt /\ messages' = messages
          \/ exc' = "" /\ calls' = 0 /\ order' = <<>> /\ i' = i /\ i < runs]_vars

\* the gateway raised in the middle of a run: turns of the schedule were never
\* called
C16_Witness == RunFailed /\ calls >= 2 /\ calls < 2 * rounds + 1

\* ------------------------------------------------------------------ C17
\* C17: in every record of the negotiation variant `winner` is "agree" exactly
\* when `agreed` is true and "none" when it is false or None, and `agreed` is
\* the three-valued outcome as the run gave it: what run_single_alignment
\* returned, None for a run that failed.
C17_WinnerMirrorsAgreed ==
  variant = "nojudge" =>
    /\ \A n \in 1..Len(sink) :
         /\ sink[n].agreed \in {PyBool(TRUE), PyBool(FALSE), PyNone}
         /\ sink[n].winner = IF sink[n].agreed = PyBool(TRUE) THEN PyStr("agree") ELSE PyStr("none")
    /\ RunReturned => sink[Len(sink)].agreed = ret.first
    /\ RunFailed => sink[Len(sink)].agreed = PyNone

\* a negotiation whose outcome is unknown was recorded: `agreed` None, not false
C17_Witness ==
  /\ variant = "nojudge"
  /\ RunReturned
  /\ ret.first = PyNone
  /\ sink[Len(sink)].agreed = PyNone
  /\ sink[Len(sink)].winner = PyStr("none")

\* ------------------------------------------------------------------ C18
\* the waits of the call are those after its failed attempts 1, 2, ... in
\* order, the n-th of them sleep_s * n
LinearWaits == \A n \in 1..Len(sleeps) : sleeps[n] = sleep_s * n

\* C18: in chat_once the wait after the n-th failed attempt, n below the retry
\* count, is the base delay times n; there is exactly one wait between two
\* consecutive attempts; and there is no wait after the last failed attempt
\* nor after a success.
C18_LinearBackoff ==
  /\ [](Waiting => Len(errs) = attempt - 1 /\ Len(sleeps) = attempt - 1 /\ LinearWaits)
  /\ [](RunFailed => Len(errs) = retry /\ Len(sleeps) = retry - 1 /\ LinearWaits)
  /\ [][sleeps' # sleeps =>
          \/ /\ Len(sleeps') = Len(sleeps) + 1
             /\ Len(errs') = Len(errs) + 1
             /\ attempt < retry
             /\ attempt' = attempt + 1
          \/ sleeps' = <<>>]_vars

\* a call failed on all of three or more attempts: a wait after each but the last
C18_Witness == RunFailed /\ retry >= 3 /\ Len(errs) = retry /\ Len(sleeps) = retry - 1

\* ------------------------------------------------------------------ C19
\* what the directive of the round turn in progress quotes as the other
\* participant's last turn
Quoted == Tail(sent[Len(sent)].content)

\* C19: the directive of a round turn carries "(none yet)" only when the other
\* participant has no turn yet, which is A's directive of the first round; every
\* other directive quotes exactly the last reply of the other participant (the
\* last message of the transcript), whatever its text, the empty text included.
C19_PlaceholderOnlyFirstDirective ==
  pc \in {"waitA", "waitB"} =>
    Quoted = IF pc = "waitA" /\ r = 0
             THEN NoneYet
             ELSE messages[Len(messages)].content

\* ------------------------------------------------------------------ C20
InRoundTurn == pc \in {"turnA", "turnB", "waitA", "waitB"}

\* the step in which the reply of the round turn in progress comes back
TurnEnds == pc \in {"waitA", "waitB"} /\ pc' \in {"turnA", "turnB", "arb"}

\* C20: on every round turn the conversation sent is the transcript followed by
\* exactly one directive; building and sending the directive, and the retries,
\* leave the transcript as it was; and when the reply comes back the transcript
\* is the one before the turn with exactly that reply (what chat_once returned,
\* kept as last_a / last_b) appended as one assistant message.
C20_RoundTurnLeavesTranscript ==
  /\ [](pc \in {"waitA", "waitB"} =>
          /\ Len(sent) = Len(messages) + 1
          /\ SubSeq(sent, 1, Len(messages)) = messages
          /\ sent[Len(sent)].role = "user")
  /\ [][InRoundTurn =>
          IF TurnEnds
          THEN LET reply == IF pc = "waitA" THEN last_a' ELSE last_b' IN
                 /\ reply.some
                 /\ messages' = Append(messages, Msg("assistant", reply.text))
          ELSE messages' = messages]_vars

\* B's turn came back with a text at its second attempt or later: the
\* transcript is the system message and the two replies
C20_Witness ==
  /\ pc \in {"turnA", "arb"}
  /\ r = 1
  /\ attempt >= 2
  /\ last_a.text # <<>>
  /\ last_b.text # <<>>
  /\ messages = <<SystemMsg(variant), Assistant(last_a.text), Assistant(last_b.text)>>

\* ------------------------------------------------------------------ C21
\* a run is in progress
InRun == pc \notin {"main", "done"}

\* the step in which main enters a run
RunStarts == pc = "main" /\ pc' \notin {"main", "done"}

IsSystem(m) == m.role = "system"

\* C21: in a run the transcript is append-only: a step leaves it as it is or
\* extends it by exactly one message (so that every earlier transcript of the
\* run is a prefix of every later one); its first message is the system
\* message and it holds no other system message; and a run starts from a
\* fresh transcript, the system message alone, whatever the runs before left.
C21_TranscriptAppendOnly ==
  /\ [](InRun =>
          /\ messages # <<>>
          /\ messages[1] = SystemMsg(variant)
          /\ Len(SelectSeq(messages, IsSystem)) = 1)
  /\ [][IF RunStarts
        THEN messages' = <<SystemMsg(variant)>>
        ELSE \/ messages' = messages
             \/ /\ InRun
                /\ Len(messages') = Len(messages) + 1
                /\ SubSeq(messages', 1, Len(messages)) = messages]_vars

\* the second run of a batch is at its arbitration turn, with a transcript of
\* its own turns only, after a first run that returned
C21_Witness ==
  /\ i = 1
  /\ pc = "waitArb"
  /\ rounds >= 1
  /\ Len(messages) = 2 * rounds + 2
  /\ Len(sink) = 1
  /\ ~IsFailedRecord(sink[1])

\* ------------------------------------------------------------------ C22
\* the step in which an attempt of chat_once ends: it returns, it raises out of
\* chat_once, or the next attempt begins
AttemptEnds == Waiting /\ (pc' # pc \/ attempt' # attempt)

\* C22: chat_once returns no text for a malformed response: an attempt whose
\* response has no `choices`, or whose choice has no `message`, ends in a
\* TypeError for that attempt and nothing is returned to the orchestrator; an
\* attempt whose response is well formed returns its content, the empty string
\* when the content is empty or null.
C22_MalformedNeverReturned ==
  [][AttemptEnds =>
       /\ got'.kind \in {"nochoices", "nomessage"} =>
            /\ Len(errs') = Len(errs) + 1
            /\ IsProtocolViolation(errs'[Len(errs')])
            /\ pc' \in {pc, "main"}
            /\ pc' = "main" => exc' = errs'[Len(errs')]
            /\ messages' = messages
            /\ last_a' = last_a /\ last_b' = last_b /\ arb_raw' = arb_raw
       /\ got'.kind \in {"text", "null"} =>
            LET returned == CASE pc = "waitA" -> last_a'
                              [] pc = "waitB" -> last_b'
                              [] OTHER -> arb_raw' IN
              returned = Some(IF got'.kind = "text" THEN got'.content ELSE <<>>)]_vars

\* the first attempt of a call got a choice without `message`
C22_Witness ==
  /\ Waiting
  /\ attempt = 2
  /\ got.kind = "nomessage"
  /\ errs = <<"TypeError: Malformed ChatCompletion">>

\* ------------------------------------------------------------------ C23
\* no brace among the tokens a..b of t
NoBrace(t, a, b) == \A n \in a..b : t[n] # LBRACE /\ t[n] # RBRACE

\* the tokens a..b of t are the text of a JSON object
IsObjectText(t, a, b) ==
  /\ a < b
  /\ t[a] = LBRACE
  /\ t[b] = RBRACE
  /\ LET got_obj == JsonLoads(SubSeq(t, a, b)) IN got_obj.ok /\ IsDict(got_obj.val)

\* C23: when the whole trimmed text is not a JSON object, force_json returns
\* what the text from the first "{" to the last "}" (both included, the "}"
\* after the "{") parses to when that is a mapping, and None otherwise.  So an
\* object with text without braces around it is recovered, and a text of two
\* objects one after the other gives None, not one of the objects.
C23_FallbackFirstToLastBrace ==
  (fj_out.called /\ fj_arg.some /\ fj_out.path # "fast") =>
    LET t == fj_arg.text
        s == Strip(t) IN
      /\ ~fj_out.raised
      /\ ~(JsonLoads(s).ok /\ IsDict(JsonLoads(s).val))
      /\ fj_out.obj = IF HasBracePair(t) /\ IsObjectText(t, FindFirst(t, LBRACE), FindLast(t, RBRACE))
                      THEN SomeObj(JsonLoads(Delimited(t)).val)
                      ELSE NoObj
      /\ fj_out.path = IF fj_out.obj.some THEN "fallback" ELSE "none"
      /\ \A a \in 1..Len(t), b \in 1..Len(t) :
           (IsObjectText(t, a, b) /\ NoBrace(t, 1, a - 1) /\ NoBrace(t, b + 1, Len(t))) =>
             fj_out.obj = SomeObj(JsonLoads(SubSeq(t, a, b)).val)
      /\ \A a \in 1..Len(t), b \in 1..Len(t) :
           IsObjectText(t, a, b) =>
             \A c \in (b + 1)..Len(t), d \in (b + 1)..Len(t) :
               (IsObjectText(t, c, d) /\ NoBrace(t, b + 1, c - 1)) => fj_out.obj = NoObj

\* an object with a member, words before it, came back through the fallback
C23_Witness ==
  /\ fj_out.called
  /\ fj_arg.some
  /\ fj_out.path = "fallback"
  /\ Head(fj_arg.text).k = "word"
  /\ fj_out.obj.some
  /\ DOMAIN fj_out.obj.val.m # {}

\* ------------------------------------------------------------------ C24
\* the roles of a transcript, in order
Roles(transcript) == [n \in 1..Len(transcript) |-> transcript[n].role]

\* C24: called with the same rounds and met with the same outcomes of their
\* gateway calls, run_single_debate and run_single_alignment stand at the same
\* point (the same turn next, both returned, or both left by the exception),
\* have made the same number of gateway calls, have failed at the same call if
\* at all, and hold transcripts of the same length, with the same roles in the
\* same order and the same replies.
C24_SameSkeleton ==
  Running(d_run) \/ Running(n_run) \/ d_run.calls > 0 \/ n_run.calls > 0 =>
    /\ d_run.pc = n_run.pc
    /\ d_run.r = n_run.r
    /\ d_run.calls = n_run.calls
    /\ d_run.failed = n_run.failed
    /\ Len(d_run.messages) = Len(n_run.messages)
    /\ Roles(d_run.messages) = Roles(n_run.messages)
    /\ Replies(d_run.messages) = Replies(n_run.messages)

\* both orchestrators returned from two rounds of replies with text, their
\* transcripts differing in the prompts only
C24_Witness ==
  /\ d_run.pc = "returned"
  /\ n_run.pc = "returned"
  /\ d_run.rounds = 2
  /\ d_run.calls = 5
  /\ Len(d_run.messages) = 6
  /\ \A n \in 1..4 : Replies(d_run.messages)[n].content # <<>>
  /\ d_run.messages # n_run.messages

\* ------------------------------------------------------------------ C25
\* C25: with every provider request coming back, every run ends, returned or
\* failed, having made at most retry * (2R + 1) provider requests; the batch
\* ends (the summary is printed with all its runs attempted); and no run is
\* suspended, resumed or restarted: while a run is in progress its run number
\* stays and its rounds, calls, requests and transcript only grow, the run
\* number moves on exactly when the run ends, and the run that follows starts
\* from nothing.
C25_RunsAndBatchTerminate ==
  /\ [](requests <= retry * (2 * rounds + 1))
  /\ [](InRun => requests >= 1 \/ pc \in {"turnA", "arb"})
  /\ (InRun ~> (~InRun /\ (RunReturned \/ RunFailed)))
  /\ <>[](pc = "done" /\ i = runs /\ Len(sink) = runs)
  /\ [][/\ i' = IF InRun /\ ~InRun' THEN i + 1 ELSE i
        /\ (InRun /\ InRun') =>
             /\ r' >= r /\ calls' >= calls /\ requests' >= requests
             /\ Len(messages') >= Len(messages)
        /\ RunStarts => r' = 0 /\ calls' = 0 /\ requests' = 0 /\ Len(messages') = 1]_vars

\* a run is at the last request it can make: every call of its two rounds or
\* more, the arbitration call too, is at its last attempt after failing on all
\* the others
C25_Witness ==
  /\ pc = "waitArb"
  /\ rounds >= 2
  /\ retry >= 2
  /\ attempt = retry
  /\ requests = retry * (2 * rounds + 1)

\* ------------------------------------------------------------------ C26
\* the runs attempted so far that returned, by their records
ReturnedRuns == {n \in 1..Len(sink) : ~IsFailedRecord(sink[n])}

\* the returned runs that count: in the debate the winner is "pro" or "con" and
\* is the action side, in the negotiation agreed is True
CountingRuns ==
  {n \in ReturnedRuns :
     IF variant = "debate"
     THEN sink[n].winner \in {PyStr("pro"), PyStr("con")} /\ sink[n].winner = PyStr(action_side)
     ELSE sink[n].agreed = PyBool(TRUE)}

\* C26: after i attempted runs 0 <= wins (agreements) <= completed <= i;
\* completed is the number of runs that returned without raising; wins is the
\* number of returned debates whose winner is "pro" or "con" and the action
\* side, agreements the number of returned negotiations with agreed True; and
\* the summary gives a rate only when completed > 0.
C26_DriverCounters ==
  /\ 0 <= wins /\ wins <= completed /\ completed <= i /\ i <= runs
  /\ i = Len(sink)
  /\ completed = Cardinality(ReturnedRuns)
  /\ wins = Cardinality(CountingRuns)
  /\ summary = "rate" => completed > 0
  /\ pc = "done" => summary = IF completed > 0 THEN "rate" ELSE "no successful runs"

\* the summary of a batch of debates for the CON side gave a rate: one run
\* failed and one returned with winner "pro", which is not counted
C26_Witness ==
  /\ pc = "done"
  /\ summary = "rate"
  /\ variant = "debate"
  /\ action_side = "con"
  /\ i = 2
  /\ completed = 1
  /\ wins = 0
  /\ \E n \in 1..2 : sink[n].winner = PyStr("pro")

=============================================================================
